---- MODULE Spec2Model ----
(***************************************************************************)
(* A model of the scaledown pipeline engine (scaledown/pipeline.py): the   *)
(* constructor with its structural validation, get_step, and run with its  *)
(* per-step dispatch and history.  The steps themselves (optimizers,       *)
(* compressors, plain callables) are collaborators: what a step returns or *)
(* raises is a nondeterministic choice among small sets of outcomes.       *)
(***************************************************************************)
EXTENDS Integers, Sequences, FiniteSets, TLC

\* ------------------------------------------------------------------ bounds
\* Longest step list handed to the constructor.
MaxSteps == 2

\* ------------------------------------------------------------ value domains
\* Step names.
Names == {"a", "b"}

\* Handler classes: a BaseOptimizer subclass, a BaseCompressor subclass, a
\* class deriving from both bases, and a plain callable.
Handlers == {"opt", "comp", "both", "fn"}

\* isinstance(component, BaseOptimizer)
IsBaseOptimizer(h) == h \in {"opt", "both"}

\* isinstance(component, BaseCompressor)
IsBaseCompressor(h) == h \in {"comp", "both"}

\* component.__class__.__name__
ClassName(h) == h

\* Texts are sequences of characters.  Contents are the texts a caller hands
\* to run(), Outputs the texts a step may return.
Contents == { <<>>, <<"a", "b", "c">> }

Outputs == { <<>>, <<"a", "b">> }

\* Keyword arguments of run(): functions from parameter names to values.
\* A parameter the caller did not pass is not in the domain.
NoKwargs == [k \in {} |-> "q"]

KwargsSet ==
    { NoKwargs,
      [query |-> "q"],
      [instruction |-> "i"],
      [query |-> "q", instruction |-> "i", budget |-> "100",
       file_path |-> "f.py", extra |-> "x"] }

\* The spec's error kinds as the exceptions the code raises for them.
ConfigurationError == "ValueError"

NotFoundError == "KeyError"

ValidationError == "ValueError"

DependencyMissingError == "ImportError"

\* Exceptions a step may raise.
StepErrors == {"AuthenticationError", "APIError"}

\* OptimizerMetrics objects a step may report; the second one lacks the token
\* attributes, which run() reads with getattr(..., default).
OptimizerMetricsSet ==
    { [original_tokens |-> 20, optimized_tokens |-> 10, latency_ms |-> 5],
      [latency_ms |-> 7] }

\* (tokens, latency) pairs a compressor result may carry.
CompressorMetricsSet ==
    { [tokens |-> <<10, 5>>, latency |-> 100],
      [tokens |-> <<0, 0>>, latency |-> 0] }

\* ------------------------------------------------------- pure functions
\* getattr(obj, name, default)
GetAttr(obj, name, default) ==
    IF name \in DOMAIN obj THEN obj[name] ELSE default

\* encoding.encode(text): a byte-pair encoding with one merge rule, the pair
\* ("a", "b") becoming the single token "ab".
RECURSIVE Encode(_)
Encode(text) ==
    IF Len(text) = 0 THEN <<>>
    ELSE IF Len(text) >= 2 /\ text[1] = "a" /\ text[2] = "b"
         THEN <<"ab">> \o Encode(SubSeq(text, 3, Len(text)))
         ELSE <<text[1]>> \o Encode(Tail(text))

\* The encoding "cl100k_base": its one merge rule is the pair ("b", "c").
RECURSIVE EncodeCl100k(_)
EncodeCl100k(text) ==
    IF Len(text) = 0 THEN <<>>
    ELSE IF Len(text) >= 2 /\ text[1] = "b" /\ text[2] = "c"
         THEN <<"bc">> \o EncodeCl100k(SubSeq(text, 3, Len(text)))
         ELSE <<text[1]>> \o EncodeCl100k(Tail(text))

\* encoding.encode(text) for the encoding named enc; Encode is "o200k_base".
EncodingEncode(enc, text) ==
    IF enc = "o200k_base" THEN Encode(text) ELSE EncodeCl100k(text)

\* Model identifiers handed to count_tokens; tiktoken knows the first two.
Models == {"gpt-4o", "gpt-4", "my-model"}

\* tiktoken.encoding_for_model(model): the encoding's name, or KeyError.
encoding_for_model(model) ==
    IF model = "gpt-4o" THEN [ok |-> TRUE, value |-> "o200k_base"]
    ELSE IF model = "gpt-4" THEN [ok |-> TRUE, value |-> "cl100k_base"]
    ELSE [ok |-> FALSE, error |-> "KeyError"]

\* Variant of count_tokens that lets the KeyError of an unknown model out.
count_tokens_model_noFallback(text, model, tiktokenLoaded) ==
    IF text = <<>> THEN [ok |-> TRUE, value |-> 0]
    ELSE IF ~tiktokenLoaded THEN [ok |-> FALSE, error |-> "ImportError"]
    ELSE LET e == encoding_for_model(model)
         IN  IF ~e.ok THEN e
             ELSE [ok |-> TRUE, value |-> Len(EncodingEncode(e.value, text))]

\* count_tokens(text, model): [ok |-> TRUE, value |-> n], or the exception.
count_tokens_model(text, model, tiktokenLoaded) ==
    IF text = <<>> THEN [ok |-> TRUE, value |-> 0]
    ELSE IF ~tiktokenLoaded THEN [ok |-> FALSE, error |-> "ImportError"]
    ELSE LET e == encoding_for_model(model)
             enc == IF e.ok THEN e.value ELSE "cl100k_base"
         IN  [ok |-> TRUE, value |-> Len(EncodingEncode(enc, text))]

\* count_tokens(text), the model left at its default "gpt-4o".
count_tokens(text, tiktokenLoaded) ==
    count_tokens_model(text, "gpt-4o", tiktokenLoaded)

\* The loop of Pipeline._validate_steps from position i on, seen_compressor
\* being the flag's value so far: "ok", or the exception raised.
RECURSIVE ValidateLoop(_, _, _)
ValidateLoop(s, i, seen_compressor) ==
    IF i > Len(s) THEN "ok"
    ELSE IF IsBaseCompressor(s[i].component)
         THEN ValidateLoop(s, i + 1, TRUE)
         ELSE IF IsBaseOptimizer(s[i].component) /\ seen_compressor
              THEN "ValueError"
              ELSE ValidateLoop(s, i + 1, seen_compressor)

\* Variant of _validate_steps without the emptiness test.
validate_steps_noEmptyTest(s) == ValidateLoop(s, 1, FALSE)

\* Pipeline._validate_steps: "ok", or the exception raised.
validate_steps(s) ==
    IF Len(s) = 0 THEN "ValueError"
    ELSE ValidateLoop(s, 1, FALSE)

\* The loop of Pipeline.get_step from position i on.
RECURSIVE GetStepLoop(_, _, _)
GetStepLoop(s, name, i) ==
    IF i > Len(s) THEN [ok |-> FALSE, error |-> "KeyError"]
    ELSE IF s[i].name = name THEN [ok |-> TRUE, value |-> s[i].component]
         ELSE GetStepLoop(s, name, i + 1)

\* Variant of get_step that looks the name up as dict(steps)[name] would:
\* the last step of that name wins.
RECURSIVE GetStepLastLoop(_, _, _)
GetStepLastLoop(s, name, i) ==
    IF i < 1 THEN [ok |-> FALSE, error |-> "KeyError"]
    ELSE IF s[i].name = name THEN [ok |-> TRUE, value |-> s[i].component]
         ELSE GetStepLastLoop(s, name, i - 1)

get_step_last(s, name) == GetStepLastLoop(s, name, Len(s))

\* Pipeline.get_step
get_step(s, name) == GetStepLoop(s, name, 1)

\* The branch of run()'s loop body taken for a component.
Dispatch(h) ==
    IF IsBaseOptimizer(h) THEN "optimization"
    ELSE IF IsBaseCompressor(h) THEN "compression"
    ELSE "custom"

\* Variant of the forwarding in which the first step consumes the query.
ForwardKwargs_popQuery(kw, i) ==
    IF i > 1 THEN [k \in DOMAIN kw \ {"query"} |-> kw[k]] ELSE kw

\* The keyword arguments run() passes to step i: **kwargs, unchanged.
ForwardKwargs(kw, i) == kw

\* StepMetadata(...)
StepMetadata(name, inp, out, lat, step_type, h) ==
    [step_name |-> name, input_tokens |-> inp, output_tokens |-> out,
     latency_ms |-> lat,
     details |-> [type |-> step_type, component |-> ClassName(h)]]

\* PipelineResult(...)
PipelineResult(final, original, hist) ==
    [final_content |-> final, original_content |-> original, history |-> hist]

\* Variant of OptimizerEntry in which the engine counts the output tokens
\* itself instead of taking the optimizer's figure.
OptimizerEntry_recount(result) ==
    [ok |-> TRUE,
     inp |-> GetAttr(result.metrics, "original_tokens", 0),
     out |-> Len(Encode(result.content)),
     lat |-> GetAttr(result.metrics, "latency_ms", 0),
     content |-> result.content]

\* What run() takes from the OptimizedContext an optimizer returned.
OptimizerEntry(result) ==
    [ok |-> TRUE,
     inp |-> GetAttr(result.metrics, "original_tokens", 0),
     out |-> GetAttr(result.metrics, "optimized_tokens", 0),
     lat |-> GetAttr(result.metrics, "latency_ms", 0),
     content |-> result.content]

\* What run() takes from the CompressedPrompt a compressor returned.
CompressorEntry(result) ==
    [ok |-> TRUE,
     inp |-> result.tokens[1],
     out |-> result.tokens[2],
     lat |-> result.latency,
     content |-> result.content]

\* Variant of CustomEntry that counts the input tokens after current_context
\* has been overwritten with the output.
CustomEntry_lateCount(cur, output, tiktokenLoaded) ==
    LET out == count_tokens(output, tiktokenLoaded)
    IN  IF ~out.ok THEN out
        ELSE [ok |-> TRUE, inp |-> out.value, out |-> out.value, lat |-> 0,
              content |-> output]

\* What run() computes from the output of any other component, cur being
\* current_context as the component received it; count_tokens may raise.
CustomEntry(cur, output, tiktokenLoaded) ==
    LET inp == count_tokens(cur, tiktokenLoaded)
        out == count_tokens(output, tiktokenLoaded)
    IN  IF ~inp.ok THEN inp
        ELSE IF ~out.ok THEN out
        ELSE [ok |-> TRUE, inp |-> inp.value, out |-> out.value, lat |-> 0,
              content |-> output]

\* All step lists of length 0..MaxSteps.
StepRecords == [name : Names, component : Handlers]

StepLists == UNION { [1..n -> StepRecords] : n \in 0..MaxSteps }

\* ------------------------------------------------------------------ state
VARIABLES
    tiktoken,         \* whether "import tiktoken" succeeded
    ctor,             \* "none", "ok", or the exception Pipeline(...) raised
    steps,            \* self.steps
    lookup,           \* <<>> or <<[name, res]>>: the last get_step call
    pc,               \* run(): "idle", "running", "returned", "raised"
    idx,              \* run(): position of the loop over self.steps
    context,          \* run(): the context argument
    kwargs,           \* run(): the keyword arguments
    current_context,  \* run(): local
    original_context, \* run(): local
    history,          \* run(): local
    calls,            \* the calls this run made to step handlers, in order
    results,          \* what the handlers called by this run returned
    stepRaised,       \* <<>> or <<[kind, step]>>: exception a handler raised
    returned,         \* <<>> or <<the PipelineResult run() returned>>
    raised,           \* <<>> or <<[kind, step]>>: exception leaving run()
    batched,          \* run(): whether current_context holds a list of texts
    API_KEY,          \* scaledown.config._API_KEY
    lastSet,          \* argument of the latest set_api_key call
    instances,        \* the optimizers constructed so far
    target_model,     \* self.target_model of the optimizer under study
    fs,               \* the file system: path -> text of the existing files
    sem_model,        \* SemanticOptimizer._model: "None" or "loaded"
    model_load_failed, \* SemanticOptimizer.model_load_failed
    last              \* the latest call outside the pipeline and its outcome

\* State outside the pipeline object: configuration, optimizers, files.
envVars == <<batched, API_KEY, lastSet, instances, target_model, fs,
             sem_model, model_load_failed, last>>

vars == <<tiktoken, ctor, steps, lookup, pc, idx, context, kwargs,
          current_context, original_context, history, calls, results,
          stepRaised, returned, raised, envVars>>

runVars == <<pc, idx, context, kwargs, current_context, original_context,
             history, calls, results, stepRaised, returned, raised>>

\* Optional values: None is <<>>, a given value v is <<v>>.
None == <<>>

Some(v) == <<v>>

\* An empty directory; no call made yet.
NoFiles == [p \in {} |-> <<>>]

NoCall == [op |-> "none"]

\* The state outside the pipeline before anything is configured.
EnvInit ==
    /\ batched = FALSE
    /\ API_KEY = None
    /\ lastSet = None
    /\ instances = <<>>
    /\ target_model = "gpt-4o"
    /\ fs = NoFiles
    /\ sem_model = "None"
    /\ model_load_failed = FALSE
    /\ last = NoCall

\* No run() has been called yet.
RunInit ==
    /\ pc = "idle"
    /\ idx = 0
    /\ context = <<>>
    /\ kwargs = NoKwargs
    /\ current_context = <<>>
    /\ original_context = <<>>
    /\ history = <<>>
    /\ calls = <<>>
    /\ results = <<>>
    /\ stepRaised = <<>>
    /\ returned = <<>>
    /\ raised = <<>>

Init ==
    /\ EnvInit
    /\ tiktoken \in BOOLEAN
    /\ ctor = "none"
    /\ steps = <<>>
    /\ lookup = <<>>
    /\ RunInit

\* Pipeline.__init__(steps)
Construct ==
    /\ ctor = "none"
    /\ \E s \in StepLists :
          /\ steps' = s
          /\ ctor' = validate_steps(s)
    /\ UNCHANGED <<envVars, tiktoken, lookup>>
    /\ UNCHANGED runVars

\* Pipeline.get_step(name)
GetStep ==
    /\ ctor = "ok"
    /\ pc # "running"
    /\ \E name \in Names :
          lookup' = <<[name |-> name, res |-> get_step(steps, name)]>>
    /\ UNCHANGED <<envVars, tiktoken, ctor, steps>>
    /\ UNCHANGED runVars

\* Pipeline.run(context, **kwargs): entry, up to the loop.
RunStart ==
    /\ ctor = "ok"
    /\ pc # "running"
    /\ \E c \in Contents, kw \in KwargsSet :
          /\ context' = c
          /\ kwargs' = kw
          /\ current_context' = c
          /\ original_context' = c
    /\ history' = <<>>
    /\ calls' = <<>>
    /\ results' = <<>>
    /\ stepRaised' = <<>>
    /\ returned' = <<>>
    /\ raised' = <<>>
    /\ idx' = 1
    /\ pc' = "running"
    /\ UNCHANGED <<envVars, tiktoken, ctor, steps, lookup>>

\* Variant of Call that hands every step the original context.
Call_original(method) ==
    [index |-> idx, method |-> method, context |-> original_context,
     kwargs |-> ForwardKwargs(kwargs, idx)]

\* The call made to step idx, as the handler sees it.
Call(method) ==
    [index |-> idx, method |-> method, context |-> current_context,
     kwargs |-> ForwardKwargs(kwargs, idx)]

\* Variant of Raise that swallows the exception and goes on with the next
\* step, the failed step leaving no history entry.
Raise_continue(e) ==
    /\ idx' = idx + 1
    /\ UNCHANGED <<pc, current_context, history, returned, raised>>

\* Variant of Raise that retries a failing step once before giving up.
Raise_retryOnce(e) ==
    IF stepRaised = <<>>
    THEN UNCHANGED <<pc, idx, current_context, history, returned, raised>>
    ELSE /\ raised' = <<[kind |-> e, step |-> idx]>>
         /\ pc' = "raised"
         /\ UNCHANGED <<idx, current_context, history, returned>>

\* The exception e leaves run() while step idx is being handled.
Raise(e) ==
    /\ raised' = <<[kind |-> e, step |-> idx]>>
    /\ pc' = "raised"
    /\ UNCHANGED <<idx, current_context, history, returned>>

\* Variant of AppendHistory that keeps one entry per step name, a later step
\* of the same name overwriting the earlier entry.
AppendHistory_byName(entry, step_type) ==
    IF ~entry.ok THEN Raise(entry.error)
    ELSE LET md == StepMetadata(steps[idx].name, entry.inp, entry.out,
                                entry.lat, step_type, steps[idx].component)
             same == {i \in 1..Len(history) :
                         history[i].step_name = md.step_name}
         IN  /\ history' = IF same = {} THEN Append(history, md)
                           ELSE [i \in 1..Len(history) |->
                                   IF i \in same THEN md ELSE history[i]]
             /\ current_context' = entry.content
             /\ idx' = idx + 1
             /\ UNCHANGED <<pc, returned, raised>>

\* End of one loop iteration: history.append(StepMetadata(...)), or the
\* exception raised while computing the entry.
AppendHistory(entry, step_type) ==
    IF ~entry.ok THEN Raise(entry.error)
    ELSE /\ history' = Append(history,
                              StepMetadata(steps[idx].name, entry.inp,
                                           entry.out, entry.lat, step_type,
                                           steps[idx].component))
         /\ current_context' = entry.content
         /\ idx' = idx + 1
         /\ UNCHANGED <<pc, returned, raised>>

\* The handler of step idx returns result.
HandlerReturns(result) ==
    /\ results' = Append(results, result)
    /\ UNCHANGED stepRaised

\* The handler of step idx raises e, which run() does not catch.
HandlerRaises(e) ==
    /\ stepRaised' = <<[kind |-> e, step |-> idx]>>
    /\ UNCHANGED results
    /\ Raise(e)

\* One iteration of run()'s loop on an Optimizer.
RunOptimizer ==
    /\ pc = "running" /\ idx <= Len(steps)
    /\ Dispatch(steps[idx].component) = "optimization"
    /\ calls' = Append(calls, Call("optimize"))
    /\ \/ \E c \in Outputs, m \in OptimizerMetricsSet :
             LET result == [content |-> c, metrics |-> m]
             IN  /\ HandlerReturns(result)
                 /\ AppendHistory(OptimizerEntry(result), "optimization")
       \/ \E e \in StepErrors : HandlerRaises(e)
    /\ UNCHANGED <<envVars, tiktoken, ctor, steps, lookup, context, kwargs,
                   original_context>>

\* One iteration of run()'s loop on a Compressor.
RunCompressor ==
    /\ pc = "running" /\ idx <= Len(steps)
    /\ Dispatch(steps[idx].component) = "compression"
    /\ calls' = Append(calls, Call("compress"))
    /\ \/ \E c \in Outputs, m \in CompressorMetricsSet :
             LET result == [content |-> c, tokens |-> m.tokens,
                            latency |-> m.latency]
             IN  /\ HandlerReturns(result)
                 /\ AppendHistory(CompressorEntry(result), "compression")
       \/ \E e \in StepErrors : HandlerRaises(e)
    /\ UNCHANGED <<envVars, tiktoken, ctor, steps, lookup, context, kwargs,
                   original_context>>

\* One iteration of run()'s loop on any other component.
RunCustom ==
    /\ pc = "running" /\ idx <= Len(steps)
    /\ Dispatch(steps[idx].component) = "custom"
    /\ calls' = Append(calls, Call("__call__"))
    /\ \/ \E output \in Outputs :
             /\ HandlerReturns([content |-> output])
             /\ AppendHistory(CustomEntry(current_context, output, tiktoken),
                              "custom")
       \/ \E e \in StepErrors : HandlerRaises(e)
    /\ UNCHANGED <<envVars, tiktoken, ctor, steps, lookup, context, kwargs,
                   original_context>>

\* run(): the loop is over, return PipelineResult(...).
RunReturn ==
    /\ pc = "running" /\ idx > Len(steps)
    /\ returned' = <<PipelineResult(current_context, original_context,
                                    history)>>
    /\ pc' = "returned"
    /\ UNCHANGED <<envVars, tiktoken, ctor, steps, lookup, idx, context, kwargs,
                   current_context, original_context, history, calls,
                   results, stepRaised, raised>>

Next ==
    \/ Construct
    \/ GetStep
    \/ RunStart
    \/ RunOptimizer
    \/ RunCompressor
    \/ RunCustom
    \/ RunReturn

Spec == Init /\ [][Next]_vars

\* The caller changes the list object it handed to Pipeline(...), which
\* __init__ stored without copying: append, pop or clear.  The caller does
\* so between the construction and its first call of run().
CallerMutatesList ==
    /\ ctor = "ok"
    /\ pc = "idle"
    /\ \/ /\ Len(steps) < MaxSteps
          /\ \E st \in StepRecords : steps' = Append(steps, st)
       \/ /\ Len(steps) > 0
          /\ steps' = SubSeq(steps, 1, Len(steps) - 1)
       \/ /\ Len(steps) > 0
          /\ steps' = <<>>
    /\ UNCHANGED <<envVars, tiktoken, ctor, lookup>>
    /\ UNCHANGED runVars

\* The pipeline used by a caller that keeps and changes its list of steps.
NextShared ==
    \/ Construct
    \/ GetStep
    \/ RunStart
    \/ RunOptimizer
    \/ RunCompressor
    \/ RunCustom
    \/ RunReturn
    \/ CallerMutatesList

SpecShared == Init /\ [][NextShared]_vars

\* ------------------------------------------------------- run() on a batch
\* Lists of texts a caller may hand to run() in place of one text.
Batches == { [items |-> << <<"a", "b", "c">>, <<>> >>],
             [items |-> << <<"a", "b", "c">>, <<"a", "b", "c">> >>] }

\* The state outside the pipeline that run() on a batch leaves alone.
otherEnvVars == <<API_KEY, lastSet, instances, target_model, fs, sem_model,
                  model_load_failed, last>>

\* count_tokens(text) for a list: "not text" holds for the empty list only,
\* and encoding.encode rejects a list.
count_tokens_list(items, tiktokenLoaded) ==
    IF items = <<>> THEN [ok |-> TRUE, value |-> 0]
    ELSE IF ~tiktokenLoaded THEN [ok |-> FALSE, error |-> "ImportError"]
    ELSE [ok |-> FALSE, error |-> "TypeError"]

\* Pipeline.run(context, **kwargs) with a list as context: entry.
RunStartBatch ==
    /\ ctor = "ok"
    /\ pc # "running"
    /\ \E b \in Batches, kw \in KwargsSet :
          /\ context' = b
          /\ kwargs' = kw
          /\ current_context' = b
          /\ original_context' = b
    /\ batched' = TRUE
    /\ history' = <<>>
    /\ calls' = <<>>
    /\ results' = <<>>
    /\ stepRaised' = <<>>
    /\ returned' = <<>>
    /\ raised' = <<>>
    /\ idx' = 1
    /\ pc' = "running"
    /\ UNCHANGED <<otherEnvVars, tiktoken, ctor, steps, lookup>>

\* The call made to step idx while current_context is the list.
CallBatch(method) ==
    [index |-> idx, method |-> method, context |-> current_context,
     kwargs |-> ForwardKwargs(kwargs, idx), batch |-> TRUE]

\* A handler given the list returns a list of results, one per item; run()
\* then reads attr (metrics, tokens) of the list itself.
ListResult(attr) ==
    /\ HandlerReturns([items |-> [i \in 1..Len(current_context.items) |->
                                    [content |-> current_context.items[i]]]])
    /\ Raise("AttributeError")
    /\ UNCHANGED batched

\* One iteration of run()'s loop on an Optimizer, the context being a list.
RunOptimizerBatch ==
    /\ pc = "running" /\ idx <= Len(steps) /\ batched
    /\ Dispatch(steps[idx].component) = "optimization"
    /\ calls' = Append(calls, CallBatch("optimize"))
    /\ \/ ListResult("metrics")
       \/ \E c \in Outputs, m \in OptimizerMetricsSet :
             LET result == [content |-> c, metrics |-> m]
             IN  /\ HandlerReturns(result)
                 /\ AppendHistory(OptimizerEntry(result), "optimization")
                 /\ batched' = FALSE
       \/ \E e \in StepErrors : HandlerRaises(e) /\ UNCHANGED batched
    /\ UNCHANGED <<otherEnvVars, tiktoken, ctor, steps, lookup, context,
                   kwargs, original_context>>

\* One iteration of run()'s loop on a Compressor, the context being a list.
RunCompressorBatch ==
    /\ pc = "running" /\ idx <= Len(steps) /\ batched
    /\ Dispatch(steps[idx].component) = "compression"
    /\ calls' = Append(calls, CallBatch("compress"))
    /\ \/ ListResult("tokens")
       \/ \E c \in Outputs, m \in CompressorMetricsSet :
             LET result == [content |-> c, tokens |-> m.tokens,
                            latency |-> m.latency]
             IN  /\ HandlerReturns(result)
                 /\ AppendHistory(CompressorEntry(result), "compression")
                 /\ batched' = FALSE
       \/ \E e \in StepErrors : HandlerRaises(e) /\ UNCHANGED batched
    /\ UNCHANGED <<otherEnvVars, tiktoken, ctor, steps, lookup, context,
                   kwargs, original_context>>

\* One iteration of run()'s loop on any other component, the context being
\* a list: count_tokens(current_context) is evaluated on the list.
RunCustomBatch ==
    /\ pc = "running" /\ idx <= Len(steps) /\ batched
    /\ Dispatch(steps[idx].component) = "custom"
    /\ calls' = Append(calls, CallBatch("__call__"))
    /\ \/ \E output \in Outputs :
             LET inp == count_tokens_list(current_context.items, tiktoken)
                 out == count_tokens(output, tiktoken)
             IN  /\ HandlerReturns([content |-> output])
                 /\ AppendHistory(
                        IF ~inp.ok THEN inp
                        ELSE IF ~out.ok THEN out
                        ELSE [ok |-> TRUE, inp |-> inp.value,
                              out |-> out.value, lat |-> 0,
                              content |-> output],
                        "custom")
                 /\ batched' = (~inp.ok \/ ~out.ok)
       \/ \E e \in StepErrors : HandlerRaises(e) /\ UNCHANGED batched
    /\ UNCHANGED <<otherEnvVars, tiktoken, ctor, steps, lookup, context,
                   kwargs, original_context>>

\* A pipeline whose caller hands lists of texts to run().
NextBatch ==
    \/ Construct
    \/ RunStartBatch
    \/ RunOptimizerBatch
    \/ RunCompressorBatch
    \/ RunCustomBatch
    \/ (~batched /\ RunOptimizer)
    \/ (~batched /\ RunCompressor)
    \/ (~batched /\ RunCustom)
    \/ RunReturn

SpecBatch == Init /\ [][NextBatch]_vars

\* -------------------------------------------------------- the optimizers
\* "not x" for an optional string.
Falsy(x) == x = None \/ x = Some("")

\* text.strip(): the text without its leading and trailing blanks.
RECURSIVE Strip(_)
Strip(text) ==
    IF Len(text) = 0 THEN text
    ELSE IF text[1] = " " THEN Strip(Tail(text))
    ELSE IF text[Len(text)] = " " THEN Strip(SubSeq(text, 1, Len(text) - 1))
    ELSE text

\* The files with path p holding text / without path p.
WithFile(files, p, text) ==
    [q \in DOMAIN files \cup {p} |-> IF q = p THEN text ELSE files[q]]

WithoutFile(files, p) == [q \in DOMAIN files \ {p} |-> files[q]]

\* Arguments of HasteOptimizer.optimize: the context is a str (blank or not,
\* with or without a lone surrogate) or something else, such as a list.
HasteContexts ==
    { [is_str |-> TRUE, text |-> <<>>],
      [is_str |-> TRUE, text |-> <<" ">>],
      [is_str |-> TRUE, text |-> <<"a", "b", "c">>],
      [is_str |-> TRUE, text |-> <<"a", "U+D800">>],
      [is_str |-> FALSE, text |-> <<>>] }

\* The text can be written with encoding='utf-8': it has no lone surrogate.
Utf8Encodable(text) == \A i \in 1..Len(text) : text[i] # "U+D800"

Queries == { None, Some(""), Some("q") }

FilePaths == { None, Some(""), Some("f.py"), Some("gone.py") }

\* Names tempfile.NamedTemporaryFile may pick.
TempNames == {"tmp1.py", "tmp2.py"}

\* Directories the optimizers may start in: f.py exists or not.
InitialFiles ==
    { NoFiles,
      [p \in {"f.py"} |-> <<"a", "b", "c">>],
      [p \in {"f.py"} |-> <<>>] }

\* What select_from_file may do: return a dict, with or without its "code"
\* and "nodes" entries ("nodes" given by its length), or raise.
SelectOutcomes ==
    { [ok |-> TRUE, value |-> [code |-> <<"a", "b">>, nodes |-> 2]],
      [ok |-> TRUE, value |-> [nodes |-> 0]],
      [ok |-> FALSE, error |-> "FileNotFoundError"] }

\* OptimizedContext(content, OptimizerMetrics(...)); compression_ratio is kept
\* as the fraction num/den, retrieval_mode as the pieces of the string.
OptimizedContext(content, orig, opt, chunks, ratio, lat, mode) ==
    [content |-> content,
     metrics |-> [original_tokens |-> orig, optimized_tokens |-> opt,
                  chunks_retrieved |-> chunks, compression_ratio |-> ratio,
                  latency_ms |-> lat, retrieval_mode |-> mode,
                  ast_fidelity |-> 1]]

\* Values of the elapsed milliseconds a call may measure.
Latencies == {12}

\* max(a, b)
Max(a, b) == IF a >= b THEN a ELSE b

\* Variant of the query test that lets a missing query through.
HastePrecheck_noTest(query) == [ok |-> TRUE]

\* HasteOptimizer.optimize: the test of the query, before anything else.
HastePrecheck(query) ==
    IF Falsy(query) THEN [ok |-> FALSE, error |-> "ValueError"]
    ELSE [ok |-> TRUE]

\* HasteOptimizer.optimize: the try block, on the file at path, sel being
\* what select_from_file does; any exception becomes OptimizerError.
HasteTry(path, sel, lat, files, model, tiktokenLoaded) ==
    IF ~sel.ok THEN [ok |-> FALSE, error |-> "OptimizerError"]
    ELSE LET code == GetAttr(sel.value, "code", <<>>)
             nodes == GetAttr(sel.value, "nodes", 0)
             orig == IF path \in DOMAIN files
                     THEN count_tokens_model(files[path], model,
                                             tiktokenLoaded)
                     ELSE [ok |-> TRUE, value |-> 0]
             opt == count_tokens_model(code, model, tiktokenLoaded)
         IN  IF ~orig.ok \/ ~opt.ok
             THEN [ok |-> FALSE, error |-> "OptimizerError"]
             ELSE [ok |-> TRUE,
                   value |-> OptimizedContext(
                       code, orig.value, opt.value, nodes,
                       [num |-> orig.value, den |-> Max(opt.value, 1)],
                       lat, <<"bm25">>)]

\* HasteOptimizer.optimize: the finally block.
HasteFinally(files, temp_path) ==
    IF temp_path # None /\ temp_path[1] \in DOMAIN files
    THEN WithoutFile(files, temp_path[1])
    ELSE files

\* The record of one HasteOptimizer.optimize call.
HasteCall(ctx, query, file_path, temp, selected, out) ==
    [op |-> "haste_optimize", context |-> ctx, query |-> query,
     file_path |-> file_path, temp |-> temp, selected |-> selected,
     fsBefore |-> fs, out |-> out]

\* The state an optimizer call leaves alone.
pipelineVars == <<tiktoken, ctor, steps, lookup>>

configVars == <<batched, API_KEY, lastSet, instances>>

\* HasteOptimizer.optimize(context, query, file_path=...)
HasteOptimize ==
    /\ \E ctx \in HasteContexts, query \in Queries, file_path \in FilePaths,
          sel \in SelectOutcomes, lat \in Latencies :
          LET pre == HastePrecheck(query)
          IN  IF ~pre.ok
              THEN /\ last' = HasteCall(ctx, query, file_path, None, FALSE,
                                        pre)
                   /\ fs' = fs
              ELSE IF ~Falsy(file_path)
              THEN /\ last' = HasteCall(ctx, query, file_path, None, TRUE,
                             HasteTry(file_path[1], sel, lat, fs,
                                      target_model, tiktoken))
                   /\ fs' = HasteFinally(fs, None)
              ELSE IF ctx.is_str /\ Len(Strip(ctx.text)) > 0
              THEN \E n \in TempNames \ DOMAIN fs :
                      IF ~Utf8Encodable(ctx.text)
                      THEN \* f.write(context) raises inside the with block,
                           \* ahead of the try: the created file stays
                           /\ fs' = WithFile(fs, n, <<>>)
                           /\ last' = HasteCall(ctx, query, file_path,
                                  Some(n), FALSE,
                                  [ok |-> FALSE,
                                   error |-> "UnicodeEncodeError"])
                      ELSE LET written == WithFile(fs, n, ctx.text)
                           IN  /\ last' = HasteCall(ctx, query, file_path,
                                      Some(n), TRUE,
                                      HasteTry(n, sel, lat, written,
                                               target_model, tiktoken))
                               /\ fs' = HasteFinally(written, Some(n))
              ELSE /\ last' = HasteCall(ctx, query, file_path, None, FALSE,
                             [ok |-> FALSE, error |-> "ValueError"])
                   /\ fs' = fs
    /\ UNCHANGED <<pipelineVars, configVars, target_model, sem_model,
                   model_load_failed>>
    /\ UNCHANGED runVars

\* count_tokens(text, model=...)
CountTokens ==
    /\ \E text \in Contents \cup Outputs, model \in Models :
          last' = [op |-> "count_tokens", text |-> text, model |-> model,
                   out |-> count_tokens_model(text, model, tiktoken)]
    /\ UNCHANGED <<pipelineVars, configVars, target_model, fs, sem_model,
                   model_load_failed>>
    /\ UNCHANGED runVars

\* -------------------------------------------------- SemanticOptimizer
\* Most class and function definitions a parsed file yields.
MaxUnits == 1

\* SemanticOptimizer(top_k=3)
top_k == 3

\* Arguments of SemanticOptimizer.optimize: a str, or the empty list.
SemContexts ==
    { [is_str |-> TRUE, text |-> <<>>],
      [is_str |-> TRUE, text |-> <<"a", "b", "c">>],
      [is_str |-> FALSE, text |-> <<>>] }

\* str(context): a str is itself, the empty list reads "[]".
Str(ctx) == IF ctx.is_str THEN ctx.text ELSE <<"[", "]">>

\* min(a, b)
Min(a, b) == IF a <= b THEN a ELSE b

\* Variant of the fallback result that drops the content.
create_fallback_context_noContent(content, tokens, lat, reason) ==
    OptimizedContext(<<>>, tokens, tokens, 0, [num |-> 1, den |-> 1], lat,
                     <<"fallback_", reason>>)

\* SemanticOptimizer._create_fallback_context
create_fallback_context(content, tokens, lat, reason) ==
    OptimizedContext(content, tokens, tokens, 0, [num |-> 1, den |-> 1], lat,
                     <<"fallback_", reason>>)

\* Variant of _lazy_load_deps that tries again after a failed load.
lazy_load_deps_retry(model, failed) ==
    IF model # "None"
    THEN { [ok |-> TRUE, model |-> model, failed |-> failed,
            load |-> FALSE] }
    ELSE { [ok |-> FALSE, error |-> "OptimizerError"],
           [ok |-> TRUE, model |-> "loaded", failed |-> FALSE,
            load |-> TRUE],
           [ok |-> TRUE, model |-> model, failed |-> TRUE, load |-> TRUE] }

\* SemanticOptimizer._lazy_load_deps: what it may do. Nothing when the model
\* is loaded or its load failed before; else the imports fail, or the model
\* is built, or building it fails.
lazy_load_deps(model, failed) ==
    IF model # "None" \/ failed
    THEN { [ok |-> TRUE, model |-> model, failed |-> failed,
            load |-> FALSE] }
    ELSE { [ok |-> FALSE, error |-> "OptimizerError"],
           [ok |-> TRUE, model |-> "loaded", failed |-> failed,
            load |-> TRUE],
           [ok |-> TRUE, model |-> model, failed |-> TRUE, load |-> TRUE] }

\* The source segments ast.get_source_segment can return: the non-empty
\* contiguous pieces of the source.
Segments(source) ==
    { SubSeq(source, i, j) : i \in 1..Len(source), j \in 1..Len(source) }
        \ { <<>> }

\* SemanticOptimizer._extract_semantic_units: what it may return or raise.
\* Which definitions ast finds depends on the Python text; every choice of
\* at most MaxUnits segments is allowed for.
extract_semantic_units(path, files) ==
    IF path \notin DOMAIN files
    THEN { [ok |-> FALSE, error |-> "OptimizerError"] }
    ELSE LET source == files[path]
             defs == UNION { [1..n -> Segments(source)] : n \in 0..MaxUnits }
         IN  { [ok |-> FALSE, error |-> "OptimizerError"] : x \in
                   IF source = <<>> THEN {} ELSE {1} }
             \cup
             { [ok |-> TRUE,
                value |-> <<[type |-> "file", code |-> source]>> \o
                          [i \in 1..Len(d) |->
                              [type |-> "function", code |-> d[i]]]] :
               d \in defs }

IsValidUnit(u) == u.code # <<>> /\ u.type # "file"

\* What the embedding and the index search may give for n valid units: the
\* positions of the min(top_k, n) nearest ones, or an exception.
SearchOutcomes(n) ==
    { [ok |-> FALSE, error |-> "RuntimeError"] }
    \cup
    { [ok |-> TRUE, value |-> f] :
      f \in { g \in [1..Min(top_k, n) -> 1..n] :
                \A i, j \in DOMAIN g : i # j => g[i] # g[j] } }

\* sep.join(results), the separator standing as one character.
RECURSIVE Join(_)
Join(codes) ==
    IF Len(codes) = 0 THEN <<>>
    ELSE IF Len(codes) = 1 THEN codes[1]
    ELSE codes[1] \o <<"#">> \o Join(Tail(codes))

\* SemanticOptimizer.optimize from the count of the original tokens on.
SemanticRest(units, failed, found, lat, model, tiktokenLoaded) ==
    LET full_source == IF Len(units) > 0 /\ units[1].type = "file"
                       THEN units[1].code ELSE <<>>
        orig == count_tokens_model(full_source, model, tiktokenLoaded)
        valid_units == SelectSeq(units, IsValidUnit)
    IN  IF ~orig.ok THEN orig
        ELSE IF failed
        THEN [ok |-> TRUE,
              value |-> create_fallback_context(full_source, orig.value, lat,
                                                "model_load_failed")]
        ELSE IF Len(units) = 0
        THEN [ok |-> TRUE,
              value |-> create_fallback_context(<<>>, orig.value, lat,
                                                "no_units")]
        ELSE IF Len(valid_units) = 0
        THEN [ok |-> TRUE,
              value |-> create_fallback_context(<<>>, orig.value, lat,
                                                "no_valid_chunks")]
        ELSE IF ~found.ok THEN found
        ELSE LET found_codes == [i \in 1..Len(found.value) |->
                                valid_units[found.value[i]].code]
                 final_content == Join(found_codes)
                 opt == count_tokens(final_content, tiktokenLoaded)
             IN  IF ~opt.ok THEN opt
                 ELSE [ok |-> TRUE,
                       value |-> OptimizedContext(
                           final_content, orig.value, opt.value,
                           Len(found_codes),
                           IF orig.value > 0
                           THEN [num |-> opt.value, den |-> orig.value]
                           ELSE [num |-> 0, den |-> 1],
                           lat, <<"semantic_search">>)]

\* The record of one SemanticOptimizer.optimize call; load tells whether the
\* embedding model's construction was attempted.
SemanticCall(ctx, query, file_path, load, out) ==
    [op |-> "semantic_optimize", context |-> ctx, query |-> query,
     file_path |-> file_path, load |-> load, modelBefore |-> sem_model,
     out |-> out]

\* SemanticOptimizer.optimize(context, query, file_path=...)
SemanticOptimize ==
    /\ \E ctx \in SemContexts, query \in {None, Some("q")},
          file_path \in {None, Some(""), Some("f.py")},
          lat \in Latencies :
          IF Falsy(file_path)
          THEN LET orig == count_tokens_model(Str(ctx), target_model,
                                              tiktoken)
               IN  /\ last' = SemanticCall(ctx, query, file_path, FALSE,
                         IF ~orig.ok THEN orig
                         ELSE [ok |-> TRUE,
                               value |-> create_fallback_context(
                                   Str(ctx), orig.value, lat,
                                   "missing_filepath")])
                   /\ UNCHANGED <<sem_model, model_load_failed>>
          ELSE \E deps \in lazy_load_deps(sem_model, model_load_failed) :
                   IF ~deps.ok
                   THEN /\ last' = SemanticCall(ctx, query, file_path,
                                                FALSE, deps)
                        /\ UNCHANGED <<sem_model, model_load_failed>>
                   ELSE /\ sem_model' = deps.model
                        /\ model_load_failed' = deps.failed
                        /\ \E units \in extract_semantic_units(file_path[1],
                                                               fs) :
                              IF ~units.ok
                              THEN last' = SemanticCall(ctx, query, file_path,
                                                        deps.load, units)
                              ELSE \E found \in SearchOutcomes(
                                        Len(SelectSeq(units.value,
                                                      IsValidUnit))) :
                                     last' = SemanticCall(
                                         ctx, query, file_path, deps.load,
                                         SemanticRest(units.value,
                                                      deps.failed, found, lat,
                                                      target_model, tiktoken))
    /\ UNCHANGED <<pipelineVars, configVars, target_model, fs>>
    /\ UNCHANGED runVars

\* The optimizers start in some directory, with some target model.
InitOpt ==
    /\ tiktoken \in BOOLEAN
    /\ ctor = "none"
    /\ steps = <<>>
    /\ lookup = <<>>
    /\ RunInit
    /\ batched = FALSE
    /\ API_KEY = None
    /\ lastSet = None
    /\ instances = <<>>
    /\ target_model \in {"gpt-4o", "my-model"}
    /\ fs \in InitialFiles
    /\ sem_model = "None"
    /\ model_load_failed = FALSE
    /\ last = NoCall

NextOpt ==
    \/ HasteOptimize
    \/ SemanticOptimize
    \/ CountTokens

SpecOpt == InitOpt /\ [][NextOpt]_vars

\* ------------------------------------------------- process-wide API key
\* Most optimizers constructed.
MaxInstances == 1

\* Values handed to set_api_key and to an optimizer's api_key argument.
Keys == { None, Some(""), Some("k1"), Some("k2") }

\* set_api_key(api_key)
SetApiKey ==
    /\ pc # "running"
    /\ \E k \in Keys :
          /\ API_KEY' = k
          /\ lastSet' = Some(k)
          /\ last' = [op |-> "set_api_key", key |-> k]
    /\ UNCHANGED <<pipelineVars, batched, instances, target_model, fs,
                   sem_model, model_load_failed>>
    /\ UNCHANGED runVars

\* get_api_key()
GetApiKey ==
    /\ pc # "running"
    /\ last' = [op |-> "get_api_key", out |-> API_KEY]
    /\ UNCHANGED <<pipelineVars, configVars, target_model, fs, sem_model,
                   model_load_failed>>
    /\ UNCHANGED runVars

\* Variant of the key choice with the operands of "or" swapped.
optimizer_api_key_configuredFirst(api_key, configured) ==
    IF ~Falsy(configured) THEN configured ELSE api_key

\* BaseOptimizer.__init__: api_key or scaledown.get_api_key()
optimizer_api_key(api_key, configured) ==
    IF ~Falsy(api_key) THEN api_key ELSE configured

\* BaseOptimizer.__init__(api_key=arg); each instance is kept with the
\* argument it was given and the process-wide key of that moment.
NewOptimizer ==
    /\ pc # "running"
    /\ Len(instances) < MaxInstances
    /\ \E arg \in Keys :
          instances' = Append(instances,
              [api_key |-> optimizer_api_key(arg, API_KEY),
               arg |-> arg, configured |-> API_KEY])
    /\ last' = [op |-> "new_optimizer"]
    /\ UNCHANGED <<pipelineVars, batched, API_KEY, lastSet, target_model, fs,
                   sem_model, model_load_failed>>
    /\ UNCHANGED runVars

\* A process with a one-step pipeline built, SCALEDOWN_API_KEY set or not.
InitConfig ==
    /\ tiktoken = TRUE
    /\ ctor = "ok"
    /\ steps \in { <<[name |-> "s", component |-> h]>> :
                    h \in {"opt", "comp", "fn"} }
    /\ lookup = <<>>
    /\ RunInit
    /\ batched = FALSE
    /\ API_KEY \in { None, Some("k1") }
    /\ lastSet = None
    /\ instances = <<>>
    /\ target_model = "gpt-4o"
    /\ fs = NoFiles
    /\ sem_model = "None"
    /\ model_load_failed = FALSE
    /\ last = NoCall

NextConfig ==
    \/ SetApiKey
    \/ GetApiKey
    \/ NewOptimizer
    \/ RunStart
    \/ RunOptimizer
    \/ RunCompressor
    \/ RunCustom
    \/ RunReturn

SpecConfig == InitConfig /\ [][NextConfig]_vars

\* ----------------------------------------------------------------- claims
\* Positions of a step list.
Positions == 1..Len(steps)

\* C1: for every non-empty step sequence, construction fails with
\* ConfigurationError if and only if some Optimizer-capable step comes after
\* a Compressor-capable step (generic handlers never matter).
C1_FailsIffOptimizerAfterCompressor ==
    (ctor # "none" /\ Len(steps) > 0) =>
        ((ctor = ConfigurationError) <=>
            \E i, j \in Positions :
                /\ i < j
                /\ IsBaseCompressor(steps[i].component)
                /\ IsBaseOptimizer(steps[j].component))

\* C2: constructing a Pipeline with zero steps always fails with
\* ConfigurationError, and no constructed Pipeline has an empty step list.
C2_EmptyRejected ==
    /\ (ctor # "none" /\ Len(steps) = 0) => ctor = ConfigurationError
    /\ ctor = "ok" => Len(steps) > 0

C2_Witness == ctor = ConfigurationError /\ Len(steps) = 0

\* C3: a run that returns has one history entry per step, and entry i carries
\* the name of step i, also when names are duplicated.
C3_HistoryAligned ==
    pc = "returned" =>
        /\ Len(returned[1].history) = Len(steps)
        /\ \A i \in Positions :
              returned[1].history[i].step_name = steps[i].name

C3_Witness ==
    /\ pc = "returned"
    /\ Len(steps) = 2
    /\ steps[1].name = steps[2].name
    /\ steps[1].component # steps[2].component

\* C4: the first step receives the caller's content, step i+1 receives what
\* step i returned, and a run that returns has final_content = what the last
\* step returned and original_content = the caller's content.
C4_ContentThreaded ==
    /\ \A k \in 1..Len(calls) :
          /\ calls[k].index = k
          /\ calls[k].context =
                IF k = 1 THEN context ELSE results[k - 1].content
    /\ pc = "returned" =>
          /\ Len(results) = Len(steps)
          /\ returned[1].final_content = results[Len(steps)].content
          /\ returned[1].original_content = context

C4_Witness ==
    /\ pc = "returned"
    /\ Len(steps) = 2
    /\ results[1].content # context
    /\ results[2].content # results[1].content
    /\ calls[2].context = results[1].content

\* C5: when the handler of step k raises, run() raises the same kind, returns
\* no PipelineResult, and no step after k is invoked.
C5_FailFast ==
    stepRaised # <<>> =>
        /\ pc = "raised"
        /\ raised # <<>>
        /\ raised[1].kind = stepRaised[1].kind
        /\ returned = <<>>
        /\ Len(calls) = stepRaised[1].step

C5_Witness ==
    /\ stepRaised # <<>>
    /\ stepRaised[1].step = 2
    /\ Len(history) = 1
    /\ stepRaised[1].kind = "AuthenticationError"

\* C6: get_step(name) returns the handler of the first step of that name,
\* fails with NotFoundError when there is none, and leaves the steps alone.
C6_StateOk ==
    lookup # <<>> =>
        LET name == lookup[1].name
            res  == lookup[1].res
            hits == {i \in Positions : steps[i].name = name}
        IN  IF hits = {}
            THEN ~res.ok /\ res.error = NotFoundError
            ELSE /\ res.ok
                 /\ \E i \in hits :
                       /\ \A j \in hits : i <= j
                       /\ res.value = steps[i].component

C6_GetStepFirstMatch ==
    /\ []C6_StateOk
    /\ [][GetStep => steps' = steps]_vars

C6_Witness ==
    /\ lookup # <<>>
    /\ Len(steps) = 2
    /\ steps[1].name = steps[2].name
    /\ steps[1].component # steps[2].component
    /\ lookup[1].res.ok
    /\ lookup[1].res.value = steps[1].component

\* The step at position i is handled as an optimizer / as a compressor:
\* run() tries the Optimizer capability before the Compressor capability.
IsOptimizerStep(i) == IsBaseOptimizer(steps[i].component)

IsCompressorStep(i) ==
    IsBaseCompressor(steps[i].component) /\ ~IsOptimizerStep(i)

\* C7: the history entry of an optimizer or compressor step records exactly
\* the token counts and latency the step reported, and the matching type.
C7_ReportedMetricsRecorded ==
    \A i \in 1..Len(history) :
        LET e == history[i]
            r == results[i]
        IN  /\ IsOptimizerStep(i) =>
                  /\ e.details.type = "optimization"
                  /\ "original_tokens" \in DOMAIN r.metrics =>
                        e.input_tokens = r.metrics.original_tokens
                  /\ "optimized_tokens" \in DOMAIN r.metrics =>
                        e.output_tokens = r.metrics.optimized_tokens
                  /\ e.latency_ms = r.metrics.latency_ms
            /\ IsCompressorStep(i) =>
                  /\ e.details.type = "compression"
                  /\ e.input_tokens = r.tokens[1]
                  /\ e.output_tokens = r.tokens[2]
                  /\ e.latency_ms = r.latency

C7_Witness ==
    /\ pc = "returned"
    /\ Len(steps) = 2
    /\ IsOptimizerStep(1) /\ IsCompressorStep(2)
    /\ "optimized_tokens" \in DOMAIN results[1].metrics
    /\ results[1].metrics.optimized_tokens # Len(Encode(results[1].content))
    /\ results[2].tokens = <<10, 5>>

\* The instruction the spec has run() pass to compress.
SpecInstruction(kw) ==
    IF "instruction" \in DOMAIN kw THEN kw["instruction"]
    ELSE IF "query" \in DOMAIN kw THEN kw["query"]
    ELSE ""

\* C8: every compress call carries an instruction argument: the caller's
\* instruction if given, otherwise the caller's query, otherwise "".
C8_CompressGetsInstruction ==
    \A k \in 1..Len(calls) :
        calls[k].method = "compress" =>
            /\ "instruction" \in DOMAIN calls[k].kwargs
            /\ calls[k].kwargs["instruction"] = SpecInstruction(kwargs)

\* C9: the history entry of a generic step has input_tokens = the token count
\* of the content it received, output_tokens = the token count of what it
\* returned, latency_ms = 0 and type "custom"; what it returned is the
\* content of the next step.
C9_CustomStepRecorded ==
    \A i \in 1..Len(history) :
        Dispatch(steps[i].component) = "custom" =>
            /\ LET inp == count_tokens(calls[i].context, tiktoken)
                   out == count_tokens(results[i].content, tiktoken)
               IN  /\ inp.ok /\ history[i].input_tokens = inp.value
                   /\ out.ok /\ history[i].output_tokens = out.value
            /\ history[i].latency_ms = 0
            /\ history[i].details.type = "custom"
            /\ i < Len(calls) => calls[i + 1].context = results[i].content
            /\ (pc = "returned" /\ i = Len(steps)) =>
                  returned[1].final_content = results[i].content

C9_Witness ==
    /\ Len(history) = 2
    /\ Len(steps) = 2
    /\ Dispatch(steps[1].component) = "custom"
    /\ history[1].input_tokens = 2
    /\ history[1].output_tokens = 1
    /\ calls[2].context = <<"a", "b">>

\* C10: every step is called with the keyword arguments the caller passed to
\* run(), and no step changes what a later step sees.
C10_StateOk ==
    \A k \in 1..Len(calls) : calls[k].kwargs = kwargs

C10_KwargsForwarded ==
    /\ []C10_StateOk
    /\ [][pc = "running" => kwargs' = kwargs]_vars

C10_Witness ==
    /\ Len(calls) = 2
    /\ calls[1].method # calls[2].method
    /\ DOMAIN kwargs =
          {"query", "instruction", "budget", "file_path", "extra"}
    /\ calls[2].kwargs = kwargs


\* C11: steps are invoked in pipeline order, one at a time and each at most
\* once; a run that returns has invoked every step exactly once; a step is
\* invoked only when every earlier step has returned and none has failed.
C11_StateOk ==
    /\ \A k \in 1..Len(calls) : calls[k].index = k
    /\ Len(calls) <= Len(steps)
    /\ Len(results) >= Len(calls) - 1
    /\ pc = "returned" => Len(calls) = Len(steps) /\ Len(results) = Len(steps)
    /\ stepRaised # <<>> =>
          /\ pc # "running"
          /\ Len(calls) = stepRaised[1].step
          /\ Len(results) = stepRaised[1].step - 1

C11_InOrderOnceNoRetry ==
    /\ []C11_StateOk
    /\ [][Len(calls') > Len(calls) =>
            /\ pc = "running"
            /\ Len(calls') = Len(calls) + 1
            /\ Len(results) = Len(calls)
            /\ stepRaised = <<>>]_vars

C11_Witness ==
    /\ Len(steps) = 2
    /\ stepRaised # <<>>
    /\ stepRaised[1].step = 2
    /\ Len(calls) = 2
    /\ Len(results) = 1

\* The spec's ordering invariant on the stored steps.
NoOptimizerAfterCompressor ==
    ~ \E i, j \in Positions :
          /\ i < j
          /\ IsBaseCompressor(steps[i].component)
          /\ IsBaseOptimizer(steps[j].component)

\* C18: after a successful construction the pipeline's steps are non-empty,
\* stay the sequence given at construction, and have no Optimizer-capable
\* step after a Compressor-capable one, whatever the caller does to its list.
C18_StepsFixedAndOrdered ==
    /\ [](ctor = "ok" => Len(steps) > 0 /\ NoOptimizerAfterCompressor)
    /\ [][ctor = "ok" => steps' = steps]_vars

\* The capability under which _validate_steps treats a handler.
ValidationClass(h) ==
    IF IsBaseCompressor(h) THEN "compression"
    ELSE IF IsBaseOptimizer(h) THEN "optimization"
    ELSE "custom"

\* C19: validation and dispatch classify every handler alike, so that no run
\* of a constructed pipeline calls optimize after it has called compress.
C19_SameClassNoOptimizeAfterCompress ==
    ctor = "ok" =>
        /\ \A i \in Positions :
              ValidationClass(steps[i].component) =
                  Dispatch(steps[i].component)
        /\ \A j, k \in 1..Len(calls) :
              j < k => ~ (/\ calls[j].method = "compress"
                          /\ calls[k].method = "optimize")

\* C12: given a list of texts, run() puts each item through the pipeline on
\* its own (no step is called with the list itself) and returns one output
\* per item, in the order of the items.
C12_BatchRunsPerItem ==
    /\ \A k \in 1..Len(calls) : "batch" \notin DOMAIN calls[k]
    /\ pc = "returned" =>
          /\ Len(returned) = Len(context.items)
          /\ \A i \in 1..Len(returned) :
                returned[i].original_content = context.items[i]

\* C14: count_tokens returns 0 for empty text; for other text it fails with
\* DependencyMissingError when tiktoken is missing, and with tiktoken present
\* and a model it does not know it counts with the encoding cl100k_base.
C14_CountTokens ==
    last.op = "count_tokens" =>
        /\ last.text = <<>> => last.out.ok /\ last.out.value = 0
        /\ (last.text # <<>> /\ ~tiktoken) =>
              ~last.out.ok /\ last.out.error = DependencyMissingError
        /\ (last.text # <<>> /\ tiktoken
               /\ last.model \notin {"gpt-4o", "gpt-4"}) =>
              /\ last.out.ok
              /\ last.out.value = Len(EncodeCl100k(last.text))

C14_Witness ==
    /\ last.op = "count_tokens"
    /\ tiktoken
    /\ last.model = "my-model"
    /\ last.text = <<"a", "b">>
    /\ last.out.ok
    /\ last.out.value = 2
    /\ last.out.value # Len(Encode(last.text))

\* C15: HasteOptimizer.optimize without a query fails with ValidationError,
\* not OptimizerError, before it creates a file or calls select_from_file.
C15_HasteNeedsQuery ==
    (last.op = "haste_optimize" /\ Falsy(last.query)) =>
        /\ ~last.out.ok
        /\ last.out.error = ValidationError
        /\ last.temp = None
        /\ ~last.selected
        /\ fs = last.fsBefore

C15_Witness ==
    /\ last.op = "haste_optimize"
    /\ last.query = Some("")
    /\ last.file_path = None
    /\ last.context.is_str /\ last.context.text = <<"a", "b", "c">>
    /\ ~last.out.ok

\* The call had no file_path and a non-blank str as context.
HasteFromText ==
    /\ Falsy(last.file_path)
    /\ last.context.is_str
    /\ Len(Strip(last.context.text)) > 0

\* C20: after a HasteOptimizer.optimize call without file_path on a
\* non-blank str, the temporary file it created no longer exists; a file_path
\* of the caller is never deleted; without file_path and with a blank or
\* non-str context the call fails and creates no file.
C20_HasteTempFile ==
    last.op = "haste_optimize" =>
        /\ (HasteFromText /\ last.temp # None) =>
              /\ last.temp[1] \notin DOMAIN fs
              /\ fs = last.fsBefore
        /\ ~Falsy(last.file_path) => fs = last.fsBefore
        /\ (Falsy(last.file_path) /\ ~HasteFromText) =>
              /\ ~last.out.ok
              /\ last.temp = None
              /\ fs = last.fsBefore

\* C13: every result an optimizer returns has
\* compression_ratio * max(optimized_tokens, 1) = original_tokens.
C13_CompressionRatio ==
    (last.op \in {"haste_optimize", "semantic_optimize"} /\ last.out.ok) =>
        LET m == last.out.value.metrics
        IN  m.compression_ratio.num * Max(m.optimized_tokens, 1)
                = m.original_tokens * m.compression_ratio.den

\* C16 as stated: SemanticOptimizer.optimize without file_path never raises
\* and never loads the model; it returns the caller's content unchanged with
\* a fallback retrieval_mode, no chunks and optimized_tokens = original_tokens.
C16_NoPathNeverRaises ==
    (last.op = "semantic_optimize" /\ Falsy(last.file_path)) =>
        /\ last.out.ok
        /\ ~last.load
        /\ sem_model = last.modelBefore
        /\ last.context.is_str
        /\ last.out.value.content = last.context.text
        /\ last.out.value.metrics.retrieval_mode[1] = "fallback_"
        /\ last.out.value.metrics.chunks_retrieved = 0
        /\ last.out.value.metrics.optimized_tokens
               = last.out.value.metrics.original_tokens

\* C16 amended: SemanticOptimizer.optimize without file_path never loads the
\* model; when tiktoken is present or str(content) is empty it returns
\* str(content), a str content unchanged, with a fallback retrieval_mode, no
\* chunks and optimized_tokens = original_tokens; otherwise it fails with
\* the DependencyMissingError of count_tokens.
C16_NoPathFallback ==
    (last.op = "semantic_optimize" /\ Falsy(last.file_path)) =>
        /\ ~last.load
        /\ sem_model = last.modelBefore
        /\ IF tiktoken \/ Str(last.context) = <<>>
           THEN /\ last.out.ok
                /\ last.out.value.content = Str(last.context)
                /\ last.context.is_str =>
                      last.out.value.content = last.context.text
                /\ last.out.value.metrics.retrieval_mode[1] = "fallback_"
                /\ last.out.value.metrics.chunks_retrieved = 0
                /\ last.out.value.metrics.optimized_tokens
                       = last.out.value.metrics.original_tokens
           ELSE /\ ~last.out.ok
                /\ last.out.error = DependencyMissingError

C16_Witness ==
    /\ last.op = "semantic_optimize"
    /\ last.file_path = None
    /\ last.context.is_str /\ last.context.text = <<"a", "b", "c">>
    /\ last.out.ok
    /\ last.out.value.content = <<"a", "b", "c">>
    /\ last.out.value.metrics.original_tokens = 2
    /\ sem_model = "None"

\* No step changes an instance already constructed, only set_api_key changes
\* the process-wide key, and a step of Pipeline.run changes neither.
KeysFramed ==
    /\ \A i \in 1..Len(instances) :
          Len(instances') >= i /\ instances'[i] = instances[i]
    /\ (API_KEY' # API_KEY) => (last'.op = "set_api_key" /\ pc # "running")
    /\ (pc = "running" \/ pc' = "running") =>
          (API_KEY' = API_KEY /\ instances' = instances)

\* C17 as stated: get_api_key returns what the most recent set_api_key set;
\* an optimizer given an api_key holds it, one given none holds the
\* process-wide key of its construction; later steps change neither.
C17_KeysAsStated ==
    /\ [](/\ (last.op = "get_api_key" /\ lastSet # None) =>
                last.out = lastSet[1]
          /\ \A i \in 1..Len(instances) :
                IF instances[i].arg # None
                THEN instances[i].api_key = instances[i].arg
                ELSE instances[i].api_key = instances[i].configured)
    /\ [][KeysFramed]_vars

\* C17 amended: as C17, where an optimizer given a non-empty api_key holds
\* it, and one given none or the empty string holds the process-wide key of
\* its construction.
C17_KeysNonEmpty ==
    /\ [](/\ (last.op = "get_api_key" /\ lastSet # None) =>
                last.out = lastSet[1]
          /\ \A i \in 1..Len(instances) :
                IF ~Falsy(instances[i].arg)
                THEN instances[i].api_key = instances[i].arg
                ELSE instances[i].api_key = instances[i].configured)
    /\ [][KeysFramed]_vars

C17_Witness ==
    /\ Len(instances) > 0
    /\ instances[1].arg = Some("k2")
    /\ instances[1].api_key = Some("k2")
    /\ instances[1].configured = Some("k1")
    /\ API_KEY = None
    /\ lastSet = Some(None)
    /\ pc = "returned"

\* The step is an optimize call with a file_path on an instance whose model
\* load has failed before.
LaterCallAfterFailedLoad ==
    /\ model_load_failed
    /\ last'.op = "semantic_optimize"
    /\ ~Falsy(last'.file_path)

\* The call returned the fallback for a failed model load.
ReturnedLoadFailedFallback ==
    /\ last'.out.ok
    /\ last'.file_path[1] \in DOMAIN fs
    /\ last'.out.value.content = fs[last'.file_path[1]]
    /\ last'.out.value.metrics.retrieval_mode
          = <<"fallback_", "model_load_failed">>
    /\ last'.out.value.metrics.optimized_tokens
          = last'.out.value.metrics.original_tokens

\* C21 as stated: once the model's load has failed, model_load_failed stays
\* true, and every later optimize call with a file_path attempts no load and
\* returns the file's source with the model_load_failed fallback, never
\* raising.
C21_FailedLoadNeverRaises ==
    [][ /\ model_load_failed => model_load_failed'
        /\ LaterCallAfterFailedLoad =>
              /\ ~last'.load
              /\ sem_model' = sem_model
              /\ ReturnedLoadFailedFallback ]_vars

\* C21 amended: once the model's load has failed, model_load_failed stays
\* true, and every later optimize call with a file_path attempts no load;
\* if it returns, it returns the file's source with the model_load_failed
\* fallback; it raises only OptimizerError, for a file it cannot read or
\* parse, or the DependencyMissingError of count_tokens, when tiktoken is
\* missing and the file is not empty.
C21_FailedLoadFallback ==
    [][ /\ model_load_failed => model_load_failed'
        /\ LaterCallAfterFailedLoad =>
              /\ ~last'.load
              /\ sem_model' = sem_model
              /\ IF last'.out.ok THEN ReturnedLoadFailedFallback
                 ELSE LET path == last'.file_path[1]
                      IN  \/ /\ last'.out.error = "OptimizerError"
                             /\ path \in DOMAIN fs => fs[path] # <<>>
                          \/ /\ last'.out.error = DependencyMissingError
                             /\ ~tiktoken
                             /\ path \in DOMAIN fs
                             /\ fs[path] # <<>> ]_vars

C21_Witness ==
    /\ last.op = "semantic_optimize"
    /\ last.file_path = Some("f.py")
    /\ model_load_failed
    /\ ~last.load
    /\ sem_model = "None"
    /\ last.out.ok
    /\ last.out.value.content = <<"a", "b", "c">>
    /\ last.out.value.metrics.retrieval_mode
          = <<"fallback_", "model_load_failed">>
====
